---- MODULE Spec2Model ----
(***************************************************************************)
(* Model of package pathres of nestybox/sysbox-libs: the permission-       *)
(* checking path resolver (checkPerm, procPathAccess) together with the    *)
(* part of the Linux environment it calls into (stat, lstat, readlink on a *)
(* file system seen from the helper process). Packages pidmonitor and      *)
(* fileMonitor follow at the end of the module, each with its own          *)
(* specification.                                                          *)
(*                                                                         *)
(* Representation of strings that are paths: a path string is modelled by  *)
(* the sequence strings.Split(s, "/") yields, which determines the string: *)
(*   "/a/b" = <<"", "a", "b">>   "a/" = <<"a", "">>   "/" = <<"", "">>     *)
(*   ""     = <<"">>             "."  = <<".">>                            *)
(* A location of the file system is the sequence of names leading to it    *)
(* from the host's root directory (<<>> is the host root).                 *)
(***************************************************************************)
EXTENDS Integers, Sequences, FiniteSets, TLC

VARIABLES
    env,    \* the environment of the call: the file system, and where in it
            \* the root of the process is
    proc,   \* procInfo of the accessing process (part_006:30-37)
    path,   \* the path argument of procPathAccess
    mode,   \* the AccessMode argument
    w,      \* the local state of one procPathAccess call
    call,   \* one call of checkPerm on given file metadata: input and result
    info,   \* one call of PathAccess: the status file of the process and
            \* what getProcInfo made of it
    pmon,   \* package pidmonitor: a PidMon, its monitor goroutine, its clients
    fmon    \* package fileMonitor: a FileMon, its monitor goroutine, its clients

vars == <<env, proc, path, mode, w, call, info, pmon, fmon>>

\* the value of a variable of a part of the program that is not running
Idle == [pc |-> "idle"]

(***************************************************************************)
(* Program constants                                                       *)
(***************************************************************************)
symlinkMax == 40

R_OK == 4
W_OK == 2
X_OK == 1

\* syscall.PathMax of the Go standard library on Linux (0x1000)
PathMax == 4096

\* golang.org/x/sys/unix CAP_DAC_OVERRIDE and CAP_DAC_READ_SEARCH: the
\* capability NUMBERS of linux/capability.h (the same numbers package
\* capability of this repository gives them), which checkPerm uses as masks.
CAP_DAC_OVERRIDE == 1
CAP_DAC_READ_SEARCH == 2

(***************************************************************************)
(* Bounds of the model                                                     *)
(***************************************************************************)
\* number of components of a path argument after the optional leading "/"
MaxComps == 3
\* user and group ids are 0 .. MaxId
MaxId == 2

(***************************************************************************)
(* Integer helpers                                                         *)
(***************************************************************************)
RECURSIVE BitAnd(_, _)
\* a & b on non-negative integers
BitAnd(a, b) ==
    IF a = 0 \/ b = 0 THEN 0
    ELSE (a % 2) * (b % 2) + 2 * BitAnd(a \div 2, b \div 2)

Last(s) == s[Len(s)]
Front(s) == SubSeq(s, 1, Len(s) - 1)

IsPrefixSeq(p, s) == Len(p) <= Len(s) /\ SubSeq(s, 1, Len(p)) = p

(***************************************************************************)
(* Path strings (package path/filepath and strings of the Go library)      *)
(***************************************************************************)
\* filepath.IsAbs: the string starts with "/"
IsAbs(p) == Len(p) >= 2 /\ p[1] = ""

RECURSIVE SumLen(_)
SumLen(p) == IF p = <<>> THEN 0 ELSE Len(Head(p)) + SumLen(Tail(p))

\* len(path): the bytes of the components and the "/" between them
StrLen(p) == SumLen(p) + Len(p) - 1

RECURSIVE CleanComps(_, _, _)
\* filepath.Clean on the components: "" and "." are dropped, ".." removes the
\* component before it, is dropped at the root of an absolute path and is
\* kept at the head of a relative one. acc is the result so far.
CleanComps(abs, comps, acc) ==
    IF comps = <<>> THEN acc
    ELSE LET c == Head(comps)
             rest == Tail(comps)
         IN IF c = "" \/ c = "." THEN CleanComps(abs, rest, acc)
            ELSE IF c = ".." THEN
                 IF acc # <<>> /\ Last(acc) # ".."
                 THEN CleanComps(abs, rest, Front(acc))
                 ELSE IF abs THEN CleanComps(abs, rest, acc)
                 ELSE CleanComps(abs, rest, Append(acc, ".."))
            ELSE CleanComps(abs, rest, Append(acc, c))

\* filepath.Clean
Clean(p) ==
    LET abs == IsAbs(p)
        cs == CleanComps(abs, p, <<>>)
    IN IF abs THEN (IF cs = <<>> THEN <<"", "">> ELSE <<"">> \o cs)
       ELSE (IF cs = <<>> THEN <<".">> ELSE cs)

\* filepath.Join(p, c) for non-empty p and c: Clean(p + "/" + c)
Join(p, c) == Clean(Append(p, c))

\* filepath.Dir: Clean of the string up to its last "/"; "." when it has none
Dir(p) ==
    IF Len(p) < 2 THEN <<".">>
    ELSE Clean(Append(Front(p), ""))

\* strings.HasPrefix(s, prefix) on the bytes of the two strings: no component
\* holds a "/", so the components before the last of prefix are equal and
\* the last of prefix is a prefix of the component of s at its place
HasPrefix(s, prefix) ==
    LET n == Len(prefix)
    IN /\ n <= Len(s)
       /\ SubSeq(s, 1, n - 1) = SubSeq(prefix, 1, n - 1)
       /\ Len(prefix[n]) <= Len(s[n])
       /\ SubSeq(s[n], 1, Len(prefix[n])) = prefix[n]

(***************************************************************************)
(* The file system the helper process sees.                                *)
(*                                                                         *)
(* The accessing process has pid 1 in the model; its root directory is the *)
(* host directory env.croot: the host root itself (a process that is not   *)
(* chrooted), or /c (a container whose root file system is the host        *)
(* directory /c). Its working directory is /work inside its root.          *)
(***************************************************************************)
Dir_(u, g, p) == [type |-> "dir", uid |-> u, gid |-> g, perm |-> p,
                  target |-> <<>>, magic |-> FALSE, jump |-> <<>>]
File_(u, g, p) == [type |-> "file", uid |-> u, gid |-> g, perm |-> p,
                   target |-> <<>>, magic |-> FALSE, jump |-> <<>>]
Link_(t) == [type |-> "link", uid |-> 0, gid |-> 0, perm |-> \o777,
             target |-> t, magic |-> FALSE, jump |-> <<>>]
\* a /proc/<pid>/root or /proc/<pid>/cwd entry: a symlink by lstat, followed
\* by a jump to location j, whose readlink text is t
Magic_(t, j) == [type |-> "link", uid |-> 0, gid |-> 0, perm |-> \o777,
                 target |-> t, magic |-> TRUE, jump |-> j]

\* the names of a chain of symlinks L1 -> L2 -> ... -> L41 -> /a
ChainLen == symlinkMax + 1
ChainName(k) == "L" \o ToString(k)

\* the function of a set of <<location, inode>> pairs
TreeOf(entries) ==
    [loc \in {e[1] : e \in entries} |-> (CHOOSE e \in entries : e[1] = loc)[2]]

\* The root file system of the process, by location relative to its root.
ProcTree ==
    TreeOf({<<<<>>,                 Dir_(0, 0, \o755)>>,
            <<<<"a">>,              Dir_(1, 1, \o755)>>,
            <<<<"a", "a">>,         Dir_(1, 1, \o700)>>,
            <<<<"a", "f">>,         File_(1, 1, \o600)>>,
            <<<<"a", "lf">>,        Link_(<<"f">>)>>,
            <<<<"f">>,              File_(0, 0, \o000)>>,
            <<<<"work">>,           Dir_(1, 1, \o750)>>,
            <<<<"work", "a">>,      Dir_(1, 1, \o755)>>,
            <<<<"work", "a", "f">>, File_(1, 1, \o644)>>,
            <<<<"work", "lf">>,     Link_(<<"a", "f">>)>>,
            <<<<"lf">>,             Link_(<<"", "f">>)>>,
            <<<<"la">>,             Link_(<<"a">>)>>,
            <<<<"dang">>,           Link_(<<"", "nope">>)>>,
            <<<<"self">>,           Link_(<<"", "self">>)>>}
           \cup {<<<<ChainName(k)>>, Link_(<<"", ChainName(k + 1)>>)>> :
                    k \in 1..(ChainLen - 1)}
           \cup {<<<<ChainName(ChainLen)>>, Link_(<<"", "a">>)>>})

\* What the host has besides the process's root file system: /proc/1 with
\* the two magic links, and, when the process's root is /c, the host's own
\* root directory with entries of its own under names the container uses too.
HostTree(croot) ==
    TreeOf({<<<<"proc">>,              Dir_(0, 0, \o555)>>,
            <<<<"proc", "1">>,         Dir_(0, 0, \o555)>>,
            <<<<"proc", "1", "root">>, Magic_(<<"", "">>, croot)>>,
            <<<<"proc", "1", "cwd">>,  Magic_(<<"", "work">>, croot \o <<"work">>)>>,
            <<<<>>,                    Dir_(0, 0, \o755)>>}
           \cup (IF croot = <<>> THEN {}
                 ELSE {<<<<"a">>,       Dir_(0, 0, \o755)>>,
                       <<<<"a", "zz">>, File_(0, 0, \o644)>>}))

\* the whole file system, by host location, when the process's root is croot
FsOf(croot) ==
    LET host == HostTree(croot)
        inProc(loc) ==
            /\ IsPrefixSeq(croot, loc)
            /\ SubSeq(loc, Len(croot) + 1, Len(loc)) \in DOMAIN ProcTree
    IN [loc \in DOMAIN host \cup {croot \o l : l \in DOMAIN ProcTree} |->
           IF inProc(loc) THEN ProcTree[SubSeq(loc, Len(croot) + 1, Len(loc))]
           ELSE host[loc]]

FsHostRoot == FsOf(<<>>)
FsContainer == FsOf(<<"c">>)

\* the file system of the environment the call runs in
Fs == env.fs

Exists(loc) == loc \in DOMAIN Fs

\* the inode at an existing location
Inode(loc) == Fs[loc]

\* the directory the helper process runs in
HelperCwd == <<>>

(***************************************************************************)
(* The kernel's path walk, path_resolution(7), for a process whose root    *)
(* directory is location root: from directory dir, over the components     *)
(* comps, following a symlink in the last component iff follow; cnt counts *)
(* the symlinks followed so far in this walk, of which the kernel allows   *)
(* 40 (the bound symlinkMax copies, part_006:210-212).                     *)
(***************************************************************************)
KernelLinkMax == symlinkMax

\* the state of a walk: at directory dir with the components comps to go
KAt(dir, comps, cnt) ==
    [done |-> FALSE, err |-> "", loc |-> dir, comps |-> comps, cnt |-> cnt]
KFail(errno) ==
    [done |-> TRUE, err |-> errno, loc |-> <<>>, comps |-> <<>>, cnt |-> 0]

\* the components of a link target: an absolute target starts at the root
TargetComps(t) == IF IsAbs(t) THEN Tail(t) ELSE t

\* one component of the walk
KStep(root, k, follow) ==
    LET dir == k.loc
        c == Head(k.comps)
        rest == Tail(k.comps)
        child == Append(dir, c)
    IN CASE k.comps = <<>> -> [k EXCEPT !.done = TRUE]
         [] k.comps # <<>> /\ Inode(dir).type # "dir" -> KFail("ENOTDIR")
         [] k.comps # <<>> /\ Inode(dir).type = "dir" /\ c \in {"", "."} ->
                KAt(dir, rest, k.cnt)
         [] k.comps # <<>> /\ Inode(dir).type = "dir" /\ c = ".." ->
                KAt(IF dir = root \/ dir = <<>> THEN dir ELSE Front(dir), rest, k.cnt)
         [] OTHER ->
                IF ~Exists(child) THEN KFail("ENOENT")
                ELSE IF Inode(child).type = "link" /\ (rest # <<>> \/ follow) THEN
                     IF k.cnt >= KernelLinkMax THEN KFail("ELOOP")
                     ELSE IF Inode(child).magic
                     THEN KAt(Inode(child).jump, rest, k.cnt + 1)
                     ELSE KAt(IF IsAbs(Inode(child).target) THEN root ELSE dir,
                              TargetComps(Inode(child).target) \o rest, k.cnt + 1)
                ELSE KAt(child, rest, k.cnt)

RECURSIVE KWalk(_, _, _)
KWalk(root, k, follow) ==
    IF k.done THEN k ELSE KWalk(root, KStep(root, k, follow), follow)

\* a path string resolved by the helper process (root /, directory HelperCwd)
KResolve(p, follow) ==
    IF p = <<"">> THEN [err |-> "ENOENT", loc |-> <<>>]
    ELSE KWalk(<<>>, KAt(IF IsAbs(p) THEN <<>> ELSE HelperCwd, p, 0), follow)

NoInfo == [err |-> "ENOENT", isDir |-> FALSE, isLink |-> FALSE,
           uid |-> 0, gid |-> 0, perm |-> 0, loc |-> <<>>]

FileInfo(r) ==
    IF r.err # "" THEN [NoInfo EXCEPT !.err = r.err]
    ELSE LET n == Inode(r.loc) IN
         [err |-> "", isDir |-> n.type = "dir", isLink |-> n.type = "link",
          uid |-> n.uid, gid |-> n.gid, perm |-> n.perm, loc |-> r.loc]

\* os.Stat: stat(2), which follows symlinks
Stat(p) == FileInfo(KResolve(p, TRUE))

\* os.Lstat: lstat(2), which does not follow a symlink in the last component
Lstat(p) == FileInfo(KResolve(p, FALSE))

\* os.Readlink: the text of the link, or an error
Readlink(p) ==
    LET r == KResolve(p, FALSE) IN
    IF r.err # "" THEN [err |-> r.err, target |-> <<"">>]
    ELSE IF Inode(r.loc).type # "link" THEN [err |-> "EINVAL", target |-> <<"">>]
    ELSE [err |-> "", target |-> Inode(r.loc).target]

\* isSymlink (part_006:48-55)
isSymlink(p) ==
    LET fi == Lstat(p) IN [err |-> fi.err, is |-> fi.err = "" /\ fi.isLink]

(***************************************************************************)
(* checkPerm (part_006:72-148)                                             *)
(***************************************************************************)
\* owner check (part_006:91-97)
ownerCheck(p, fi, m) ==
    /\ fi.uid = p.uid
    /\ BitAnd(m, BitAnd(fi.perm, \o700) \div 64) = m

\* group check (part_006:99-105)
groupCheck(p, fi, m) ==
    /\ (fi.gid = p.gid \/ fi.gid \in p.sgid)
    /\ BitAnd(m, BitAnd(fi.perm, \o070) \div 8) = m

\* "other" check (part_006:107-111)
otherCheck(p, fi, m) == BitAnd(m, BitAnd(fi.perm, \o007)) = m

\* the test of the CAP_DAC_OVERRIDE branch (part_006:114)
hasDacOverride(p) == BitAnd(p.cap, CAP_DAC_OVERRIDE) = CAP_DAC_OVERRIDE

\* the test of the CAP_DAC_READ_SEARCH branch (part_006:135)
hasDacReadSearch(p) == BitAnd(p.cap, CAP_DAC_READ_SEARCH) = CAP_DAC_READ_SEARCH

\* the grants inside the CAP_DAC_OVERRIDE branch (part_006:122-132)
dacOverrideGrant(fi, m) ==
    IF fi.isDir THEN TRUE
    ELSE IF BitAnd(m, X_OK) # X_OK THEN TRUE
    ELSE BitAnd(fi.perm, \o111) # 0

\* a variant that accepts any mode containing READ on a non-directory
dacReadSearchGrant_anyRead(fi, m) ==
    IF fi.isDir /\ BitAnd(m, W_OK) # W_OK THEN TRUE
    ELSE ~fi.isDir /\ BitAnd(m, R_OK) = R_OK

\* the grants inside the CAP_DAC_READ_SEARCH branch (part_006:138-144)
dacReadSearchGrant(fi, m) ==
    IF fi.isDir /\ BitAnd(m, W_OK) # W_OK THEN TRUE
    ELSE ~fi.isDir /\ m = R_OK

\* a variant with the kernel's exclusive owner / group / other selection
permGranted_exclusive(p, fi, m) ==
    IF (IF fi.uid = p.uid THEN BitAnd(m, BitAnd(fi.perm, \o700) \div 64) = m
        ELSE IF fi.gid = p.gid \/ fi.gid \in p.sgid
        THEN BitAnd(m, BitAnd(fi.perm, \o070) \div 8) = m
        ELSE otherCheck(p, fi, m))
    THEN TRUE
    ELSE IF hasDacOverride(p) /\ dacOverrideGrant(fi, m) THEN TRUE
    ELSE IF hasDacReadSearch(p) /\ dacReadSearchGrant(fi, m) THEN TRUE
    ELSE FALSE

\* checkPerm after its stat succeeded: the checks in the order of the code,
\* each returning true at once when it grants
permGranted(p, fi, m) ==
    IF ownerCheck(p, fi, m) THEN TRUE
    ELSE IF groupCheck(p, fi, m) THEN TRUE
    ELSE IF otherCheck(p, fi, m) THEN TRUE
    ELSE IF hasDacOverride(p) /\ dacOverrideGrant(fi, m) THEN TRUE
    ELSE IF hasDacReadSearch(p) /\ dacReadSearchGrant(fi, m) THEN TRUE
    ELSE FALSE

\* checkPerm(proc, path, aMode): (granted, error)
checkPerm(p, file, m) ==
    LET fi == Stat(file) IN
    IF fi.err # "" THEN [perm |-> FALSE, err |-> fi.err, fi |-> fi]
    ELSE [perm |-> permGranted(p, fi, m), err |-> "", fi |-> fi]

(***************************************************************************)
(* SpecPerm: checkPerm applied to every principal, file metadata and mode  *)
(* of the bounded input sets.                                              *)
(***************************************************************************)
Ids == 0..MaxId

\* the capability sets of the model: every combination of capabilities 0..2
\* (CAP_CHOWN, CAP_DAC_OVERRIDE, CAP_DAC_READ_SEARCH) in the kernel's CapEff
\* encoding, capability n being bit n
Caps == 0..7

Modes == 1..7

ProcRoot == <<"", "proc", "1", "root">>
ProcCwd == <<"", "proc", "1", "cwd">>

Principal(u, g, sg, c) ==
    [root |-> ProcRoot, cwd |-> ProcCwd, uid |-> u, gid |-> g, sgid |-> sg, cap |-> c]

Meta(u, g, pm, d) ==
    [err |-> "", isDir |-> d, isLink |-> FALSE, uid |-> u, gid |-> g,
     perm |-> pm, loc |-> <<>>]

NoCall == [fi |-> NoInfo, aMode |-> 0, done |-> FALSE, granted |-> FALSE]
NoWalk == [pc |-> "idle"]

InitPerm ==
    /\ env = [croot |-> <<>>, fs |-> FsHostRoot]
    /\ path = <<"">>
    /\ mode = 0
    /\ w = NoWalk
    /\ info = Idle
    /\ pmon = Idle
    /\ fmon = Idle
    /\ \E sg \in {{}, {MaxId}}, c \in Caps :
          proc = Principal(1, 1, sg, c)
    /\ \E u \in {0, 1}, g \in Ids, pm \in 0..511, d \in BOOLEAN, m \in Modes :
          call = [fi |-> Meta(u, g, pm, d), aMode |-> m, done |-> FALSE,
                  granted |-> FALSE]

CheckPermCall ==
    /\ ~call.done
    /\ call' = [call EXCEPT !.done = TRUE,
                            !.granted = permGranted(proc, call.fi, call.aMode)]
    /\ UNCHANGED <<env, proc, path, mode, w, info, pmon, fmon>>

NextPerm == CheckPermCall

SpecPerm == InitPerm /\ [][NextPerm]_vars

(***************************************************************************)
(* procPathAccess (part_006:150-255), one call, step by step.              *)
(*                                                                         *)
(* w.pc is the place in the function: "start" before the preconditions,    *)
(* "loop" at the head of the loop over the components, "follow" at the     *)
(* head of the symlink loop, "check" before the permission check, "done"   *)
(* after return. w.i is the index of the component the loop is at, w.ret   *)
(* the returned value ("nil" or the errno). The other fields are the local *)
(* variables of the code, and a record of what the call did: w.checks, the *)
(* calls of checkPerm in order; w.reads, the number of os.Readlink calls;  *)
(* w.sys, the number of file system calls made.                            *)
(***************************************************************************)
StartWalk ==
    [pc |-> "start", i |-> 1, cur |-> <<"">>, linkCnt |-> 0, final |-> FALSE,
     ret |-> "", checks |-> <<>>, reads |-> 0, sys |-> 0]

return(s, errno) == [s EXCEPT !.pc = "done", !.ret = errno]

\* a variant that leaves the terminating NUL out of the length test
tooLong_noNul(pth) == StrLen(pth) > PathMax

\* the length test (part_006:156)
tooLong(pth) == StrLen(pth) + 1 > PathMax

\* the preconditions and the start point (part_006:152-174)
begin(p, pth, s) ==
    IF pth = <<"">> THEN return(s, "ENOENT")
    ELSE IF tooLong(pth) THEN return(s, "ENAMETOOLONG")
    ELSE [s EXCEPT !.pc = "loop", !.i = 1,
                   !.cur = IF IsAbs(pth) THEN p.root ELSE p.cwd,
                   !.linkCnt = 0, !.final = FALSE]

\* the final flag at component i (part_006:178-180)
isFinal(pth, s) == s.final \/ s.i = Len(pth)

\* an empty component: continue (part_006:182-184)
skip(pth, s) == [s EXCEPT !.final = isFinal(pth, s), !.i = s.i + 1]

\* the candidate path of component c (part_006:186-194)
candidate(p, c, cur0) ==
    IF c = ".." THEN
        LET parent == Dir(cur0)
        IN IF ~HasPrefix(parent, p.root) THEN p.root ELSE parent
    ELSE IF c # "." THEN Join(cur0, c)
    ELSE cur0

\* a named component: the candidate, its stat and lstat, and the choice
\* between following a symlink and the permission check (part_006:178-214)
advance(p, pth, s) ==
    LET fin == isFinal(pth, s)
        cur1 == candidate(p, pth[s.i], s.cur)
        fi == Stat(cur1)
        sl == isSymlink(cur1)
        s1 == [s EXCEPT !.final = fin, !.cur = cur1, !.sys = s.sys + 1]
        s2 == [s1 EXCEPT !.sys = s.sys + 2]
    IN IF fi.err # "" THEN return(s1, "ENOENT")
       ELSE IF sl.err # "" THEN return(s2, "ENOENT")
       ELSE IF ~fin /\ ~sl.is /\ ~fi.isDir THEN return(s2, "ENOTDIR")
       ELSE IF sl.is /\ cur1 # p.root THEN [s2 EXCEPT !.pc = "follow"]
       ELSE [s2 EXCEPT !.pc = "check"]

\* a variant that leaves the directory test after the symlink loop out
resolved_noDirTest(s) ==
    LET fi == Stat(s.cur)
        s1 == [s EXCEPT !.sys = s.sys + 1]
    IN IF fi.err # "" THEN return(s1, "ENOENT")
       ELSE [s1 EXCEPT !.pc = "check"]

\* after the symlink loop (part_006:232-239)
resolved(s) ==
    LET fi == Stat(s.cur)
        s1 == [s EXCEPT !.sys = s.sys + 1]
    IN IF fi.err # "" THEN return(s1, "ENOENT")
       ELSE IF ~s.final /\ ~fi.isDir THEN return(s1, "ENOTDIR")
       ELSE [s1 EXCEPT !.pc = "check"]

\* a variant of the iteration that does not count the link it followed
followLink_noCount(s) ==
    IF s.linkCnt >= symlinkMax THEN return(s, "ELOOP")
    ELSE LET rl == Readlink(s.cur)
             s1 == [s EXCEPT !.cur = rl.target, !.reads = s.reads + 1,
                             !.sys = s.sys + 1]
             il == isSymlink(rl.target)
             s2 == [s1 EXCEPT !.sys = s.sys + 2]
         IN IF rl.err # "" THEN return(s1, "ENOENT")
            ELSE IF il.err # "" THEN return(s2, "ENOENT")
            ELSE IF ~il.is THEN resolved(s2)
            ELSE s2

\* one iteration of the symlink loop (part_006:215-231), and what follows
\* the loop when the iteration leaves it
followLink(s) ==
    IF s.linkCnt >= symlinkMax THEN return(s, "ELOOP")
    ELSE LET rl == Readlink(s.cur)
             s1 == [s EXCEPT !.cur = rl.target, !.reads = s.reads + 1,
                             !.sys = s.sys + 1]
             il == isSymlink(rl.target)
             s2 == [s1 EXCEPT !.sys = s.sys + 2]
         IN IF rl.err # "" THEN return(s1, "ENOENT")
            ELSE IF il.err # "" THEN return(s2, "ENOENT")
            ELSE IF ~il.is THEN resolved(s2)
            ELSE [s2 EXCEPT !.linkCnt = s.linkCnt + 1]

\* a variant that reports a failed permission check as a missing entry
permDenied_asNotFound == "ENOENT"

\* the errno the walk returns when the permission check fails (part_006:249-251)
permDenied == "EACCES"

\* the permission check of a component (part_006:242-251)
check(p, md, s) ==
    LET m == IF ~s.final THEN X_OK ELSE md
        r == checkPerm(p, s.cur, m)
        s1 == [s EXCEPT !.sys = s.sys + 1,
                        !.checks = Append(s.checks,
                            [file |-> s.cur, aMode |-> m, final |-> s.final,
                             perm |-> r.perm, err |-> r.err, fi |-> r.fi])]
    IN IF r.err # "" \/ ~r.perm THEN return(s1, permDenied)
       ELSE [s1 EXCEPT !.pc = "loop", !.i = s.i + 1]

(***************************************************************************)
(* Spec: one call procPathAccess(proc, path, mode) for every environment,  *)
(* principal, path and mode of the bounded input sets.                     *)
(***************************************************************************)
RECURSIVE Rep(_)
\* a name of n bytes
Rep(n) ==
    IF n = 0 THEN ""
    ELSE IF n % 2 = 0 THEN LET h == Rep(n \div 2) IN h \o h
    ELSE "x" \o Rep(n - 1)

\* the components of the path arguments: "", ".", "..", names of entries of
\* the process's file system, and a name it does not have
Alphabet ==
    {"", ".", "..", "a", "f", "zz", "lf", "la", "dang", "self",
     ChainName(1), ChainName(2), ChainName(ChainLen - 20)}

ShortPaths == UNION {[1..n -> Alphabet] : n \in 1..MaxComps}

\* paths of PathMax - 2 .. PathMax + 1 bytes, relative and absolute
LongPaths ==
    {<<Rep(n)>> : n \in (PathMax - 2)..(PathMax + 1)} \cup
    {<<"", Rep(n - 1)>> : n \in (PathMax - 2)..(PathMax + 1)}

Paths == ShortPaths \cup {<<"">> \o q : q \in ShortPaths} \cup LongPaths

Envs ==
    {[croot |-> <<>>, fs |-> FsHostRoot],
     [croot |-> <<"c">>, fs |-> FsContainer]}

\* the owner of the entries of the file system (uid 1, gid 1) and a stranger,
\* each without capabilities or with one of the bits checkPerm tests
WalkPrincipals ==
    {Principal(u, u, {}, c) : u \in {1, MaxId},
                              c \in {0, CAP_DAC_OVERRIDE, CAP_DAC_READ_SEARCH}}

WalkModes == {X_OK, R_OK, R_OK + W_OK}

Init ==
    /\ env \in Envs
    /\ proc \in WalkPrincipals
    /\ path \in Paths
    /\ mode \in WalkModes
    /\ w = StartWalk
    /\ call = NoCall
    /\ info = Idle
    /\ pmon = Idle
    /\ fmon = Idle

Begin ==
    /\ w.pc = "start"
    /\ w' = begin(proc, path, w)
    /\ UNCHANGED <<env, proc, path, mode, call, info, pmon, fmon>>

\* the loop is over: return nil (part_006:254)
Return ==
    /\ w.pc = "loop"
    /\ w.i > Len(path)
    /\ w' = return(w, "nil")
    /\ UNCHANGED <<env, proc, path, mode, call, info, pmon, fmon>>

Skip ==
    /\ w.pc = "loop"
    /\ w.i <= Len(path)
    /\ path[w.i] = ""
    /\ w' = skip(path, w)
    /\ UNCHANGED <<env, proc, path, mode, call, info, pmon, fmon>>

Advance ==
    /\ w.pc = "loop"
    /\ w.i <= Len(path)
    /\ path[w.i] # ""
    /\ w' = advance(proc, path, w)
    /\ UNCHANGED <<env, proc, path, mode, call, info, pmon, fmon>>

FollowLink ==
    /\ w.pc = "follow"
    /\ w' = followLink(w)
    /\ UNCHANGED <<env, proc, path, mode, call, info, pmon, fmon>>

Check ==
    /\ w.pc = "check"
    /\ w' = check(proc, mode, w)
    /\ UNCHANGED <<env, proc, path, mode, call, info, pmon, fmon>>

Next == Begin \/ Return \/ Skip \/ Advance \/ FollowLink \/ Check

Spec == Init /\ [][Next]_vars

(***************************************************************************)
(* Properties of checkPerm, stated on the 9 permission bits and on the     *)
(* kernel's encoding of CapEff, independently of the definitions above.    *)
(***************************************************************************)
\* bit k of n
Bit(n, k) == (n \div (2 ^ k)) % 2

\* every bit of the 3-bit mode m is set in the 3 bits b
Covers(b, m) == \A k \in 0..2 : Bit(m, k) = 1 => Bit(b, k) = 1

\* mode m2 asks for no bit that m does not ask for
SubMode(m2, m) == \A k \in 0..2 : Bit(m2, k) = 1 => Bit(m, k) = 1

OwnerBits(pm) == (pm \div 64) % 8
GroupBits(pm) == (pm \div 8) % 8
OtherBits(pm) == pm % 8

OwnerGrants(p, fi, m) == fi.uid = p.uid /\ Covers(OwnerBits(fi.perm), m)
GroupGrants(p, fi, m) ==
    (fi.gid = p.gid \/ fi.gid \in p.sgid) /\ Covers(GroupBits(fi.perm), m)
OtherGrants(p, fi, m) == Covers(OtherBits(fi.perm), m)
DacGrants(p, fi, m) ==
    OwnerGrants(p, fi, m) \/ GroupGrants(p, fi, m) \/ OtherGrants(p, fi, m)

\* capability number n is in the effective set cap (CapEff: capability n is bit n)
InCapEff(cap, n) == Bit(cap, n) = 1

\* some execute bit of the entry is set
AnyExecBit(pm) == Bit(pm, 0) = 1 \/ Bit(pm, 3) = 1 \/ Bit(pm, 6) = 1

\* what CAP_DAC_OVERRIDE grants
OverrideRule(fi, m) == fi.isDir \/ Bit(m, 0) = 0 \/ AnyExecBit(fi.perm)

\* what CAP_DAC_READ_SEARCH grants
ReadSearchRule(fi, m) == (fi.isDir /\ Bit(m, 1) = 0) \/ (~fi.isDir /\ m = R_OK)

C3_DacOverride ==
    (/\ call.done
     /\ ~DacGrants(proc, call.fi, call.aMode)
     /\ InCapEff(proc.cap, CAP_DAC_OVERRIDE))
    => /\ call.fi.isDir => call.granted
       /\ ~call.fi.isDir =>
             (call.granted <=> (Bit(call.aMode, 0) = 0 \/ AnyExecBit(call.fi.perm)))

\* C4: when owner, group, other and CAP_DAC_OVERRIDE do not grant and
\* CAP_DAC_READ_SEARCH (capability 2) is in the effective capabilities,
\* checkPerm grants on a directory iff WRITE is not requested and on a
\* non-directory iff the mode is exactly READ; when no rule grants it
\* returns false.
C4_DacReadSearch ==
    call.done =>
        LET dac == DacGrants(proc, call.fi, call.aMode)
            ovr == InCapEff(proc.cap, CAP_DAC_OVERRIDE)
                   /\ OverrideRule(call.fi, call.aMode)
            rs == InCapEff(proc.cap, CAP_DAC_READ_SEARCH)
        IN /\ (~dac /\ ~ovr /\ rs)
                => (call.granted <=> ReadSearchRule(call.fi, call.aMode))
           /\ (~dac /\ ~ovr /\ ~(rs /\ ReadSearchRule(call.fi, call.aMode)))
                => ~call.granted

\* C5: checkPerm is monotonic in the mode: when it grants mode m to a
\* principal on an entry, it grants every nonzero mode whose bits are among
\* the bits of m to that principal on that entry.
C5_Monotonic ==
    (call.done /\ call.granted) =>
        \A m2 \in Modes :
            SubMode(m2, call.aMode) => permGranted(proc, call.fi, m2)

\* a grant of read+write+execute that only a capability test gives
C5_Witness ==
    /\ call.done
    /\ call.granted
    /\ call.aMode = 7
    /\ ~DacGrants(proc, call.fi, call.aMode)

(***************************************************************************)
(* Properties of procPathAccess.                                           *)
(*                                                                         *)
(* The reference they are stated against is path_resolution(7) inside the  *)
(* root of the accessing process: RootLoc and CwdLoc are the directories   *)
(* its root and its working directory are, and Ref is the outcome of the   *)
(* walk of path that looks every component up in the directory the walk is *)
(* in, follows symlinks inside RootLoc, and takes the permission decisions *)
(* of checkPerm.                                                           *)
(***************************************************************************)
RootLoc == Inode(<<"proc", "1", "root">>).jump
CwdLoc == Inode(<<"proc", "1", "cwd">>).jump

Done == w.pc = "done"

LastCheck == w.checks[Len(w.checks)]

\* the entry component c names in directory dir
RefEntry(dir, c) ==
    IF c = "." THEN [err |-> "", loc |-> dir]
    ELSE IF c = ".." THEN [err |-> "", loc |-> IF dir = RootLoc THEN dir ELSE Front(dir)]
    ELSE LET k == KWalk(RootLoc, KAt(dir, <<c>>, 0), TRUE)
         IN [err |-> k.err, loc |-> k.loc]

RECURSIVE RefWalk(_, _)
RefWalk(dir, i) ==
    IF i > Len(path) THEN "nil"
    ELSE IF path[i] = "" THEN RefWalk(dir, i + 1)
    ELSE LET e == RefEntry(dir, path[i])
             lastNamed == \A j \in (i + 1)..Len(path) : path[j] = ""
         IN IF e.err # "" THEN e.err
            ELSE IF i < Len(path) /\ Inode(e.loc).type # "dir" THEN "ENOTDIR"
            ELSE IF ~permGranted(proc, FileInfo(e), IF lastNamed THEN mode ELSE X_OK)
                 THEN "EACCES"
            ELSE RefWalk(e.loc, i + 1)

Ref ==
    IF path = <<"">> THEN "ENOENT"
    ELSE IF StrLen(path) >= PathMax THEN "ENAMETOOLONG"
    ELSE RefWalk(IF IsAbs(path) THEN RootLoc ELSE CwdLoc, 1)

RECURSIVE LinkChain(_, _)
\* the number of symlinks from the entry at loc to the first entry that is
\* not a symlink, n being the number before loc; -1 when a target is missing
LinkChain(loc, n) ==
    IF n > ChainLen \/ Inode(loc).type # "link" THEN n
    ELSE LET k == KWalk(RootLoc, KAt(Front(loc), Inode(loc).target, 0), FALSE)
         IN IF k.err # "" THEN 0 - 1 ELSE LinkChain(k.loc, n + 1)

\* C1: procPathAccess returns success only after checkPerm granted EXECUTE
\* on every non-final entry and granted the full requested mode on the
\* entry the whole path resolves to, also for a path with a trailing "/"
\* and for "/".
C1_SuccessImpliesChecks ==
    (Done /\ w.ret = "nil") =>
        /\ w.checks # <<>>
        /\ \A k \in DOMAIN w.checks :
              /\ w.checks[k].perm
              /\ k < Len(w.checks) => Bit(w.checks[k].aMode, 0) = 1
        /\ LastCheck.aMode = mode

C7_SymlinkChain ==
    (/\ Done
     /\ Len(path) = 2
     /\ path[1] = ""
     /\ path[2] \notin {"", ".", ".."}
     /\ Exists(Append(RootLoc, path[2])))
    => LET n == LinkChain(Append(RootLoc, path[2]), 0)
       IN /\ n = symlinkMax + 1 => w.ret = "ELOOP"
          /\ (1 <= n /\ n <= symlinkMax) => w.ret \in {"nil", "EACCES"}

\* C8: if a non-final component of the path exists and is, directly or after
\* symlink resolution, not a directory, procPathAccess returns ENOTDIR,
\* whatever the permissions of that entry.
C8_NotADirectory == (Done /\ Ref = "ENOTDIR") => w.ret = "ENOTDIR"

\* C9: if every earlier component passes its checks and the next component
\* does not exist, or is a symlink whose target does not exist,
\* procPathAccess returns ENOENT.
C9_NotFound == (Done /\ Ref = "ENOENT") => w.ret = "ENOENT"

\* C10 as claimed: the empty path returns ENOENT, a path returns
\* ENAMETOOLONG exactly when its length exceeds PathMax, and a path of
\* exactly PathMax bytes is not rejected as too long; both are decided
\* before any file system access.
C10_AsClaimed ==
    Done =>
        /\ path = <<"">> => (w.ret = "ENOENT" /\ w.sys = 0)
        /\ path # <<"">> => (w.ret = "ENAMETOOLONG" <=> StrLen(path) > PathMax)
        /\ w.ret = "ENAMETOOLONG" => w.sys = 0

\* C10, amended: the empty path returns ENOENT, and a path returns
\* ENAMETOOLONG exactly when its length plus one (the terminating NUL)
\* exceeds PathMax, that is when it has PathMax bytes or more: PathMax - 1
\* bytes is the longest path accepted; both are decided before any file
\* system access.
C10_Preconditions ==
    Done =>
        /\ path = <<"">> => (w.ret = "ENOENT" /\ w.sys = 0)
        /\ path # <<"">> => (w.ret = "ENAMETOOLONG" <=> StrLen(path) >= PathMax)
        /\ w.ret = "ENAMETOOLONG" => w.sys = 0

\* a path of exactly PathMax bytes is rejected before any file system access
C10_Witness ==
    /\ Done
    /\ StrLen(path) = PathMax
    /\ w.ret = "ENAMETOOLONG"
    /\ w.sys = 0

\* the starting anchor of the walk (part_006:161-166)
Anchor == IF IsAbs(path) THEN proc.root ELSE proc.cwd

\* C11: for a ".." component cur becomes the parent directory of cur, clamped
\* at the starting anchor: at the anchor ".." leaves cur at the anchor, and
\* below the anchor cur moves up exactly one level.
C11_DotDotClamped ==
    [][(/\ w.pc = "loop"
        /\ w.i <= Len(path)
        /\ path[w.i] = ".."
        /\ IsPrefixSeq(Anchor, w.cur))
       => w'.cur = (IF w.cur = Anchor THEN Anchor ELSE Front(w.cur))]_vars

(***************************************************************************)
(* Strings of the Go library, as getProcStatus and getProcInfo use them.   *)
(***************************************************************************)
\* the byte of s at position i, as a string of length 1
Char(s, i) == SubSeq(s, i, i)

RECURSIVE SplitFrom(_, _, _, _)
SplitFrom(s, sep, i, acc) ==
    IF i > Len(s) THEN <<acc>>
    ELSE IF Char(s, i) = sep THEN <<acc>> \o SplitFrom(s, sep, i + 1, "")
    ELSE SplitFrom(s, sep, i + 1, acc \o Char(s, i))

\* strings.Split(s, sep) for a separator of one byte
Split(s, sep) == SplitFrom(s, sep, 1, "")

\* the bytes the regular expression \s matches, and strings.TrimSpace trims
IsSpace(c) == c \in {" ", "\t", "\n", "\r", "\f"}

RECURSIVE SquashFrom(_, _, _)
SquashFrom(s, i, inSpace) ==
    IF i > Len(s) THEN ""
    ELSE IF IsSpace(Char(s, i))
         THEN (IF inSpace THEN "" ELSE " ") \o SquashFrom(s, i + 1, TRUE)
         ELSE Char(s, i) \o SquashFrom(s, i + 1, FALSE)

\* regexp.MustCompile(`\s+`).ReplaceAllString(s, " ")
ReplaceAllSpace(s) == SquashFrom(s, 1, FALSE)

RECURSIVE TrimLeft(_)
TrimLeft(s) ==
    IF s # "" /\ IsSpace(Char(s, 1)) THEN TrimLeft(SubSeq(s, 2, Len(s))) ELSE s

RECURSIVE TrimRight(_)
TrimRight(s) ==
    IF s # "" /\ IsSpace(Char(s, Len(s)))
    THEN TrimRight(SubSeq(s, 1, Len(s) - 1)) ELSE s

\* strings.TrimSpace
TrimSpace(s) == TrimRight(TrimLeft(s))

\* the value of a digit in base 16, or -1
HexVal(c) ==
    LET lower == "0123456789abcdef"
        upper == "0123456789ABCDEF"
        hits == {k \in 1..16 : Char(lower, k) = c \/ Char(upper, k) = c}
    IN IF hits = {} THEN 0 - 1 ELSE (CHOOSE k \in hits : TRUE) - 1

\* the values of the bytes of s in base 16 (-1 for a byte that is no digit)
HexDigits(s) == [k \in 1..Len(s) |-> HexVal(Char(s, k))]

\* the sign and the unsigned part of the text of a number
Sign(s) == IF s # "" /\ Char(s, 1) = "-" THEN 0 - 1 ELSE 1
Unsigned(s) ==
    IF s # "" /\ Char(s, 1) \in {"+", "-"} THEN SubSeq(s, 2, Len(s)) ELSE s

RECURSIVE DecValue(_, _)
DecValue(ds, acc) ==
    IF ds = <<>> THEN acc ELSE DecValue(Tail(ds), 10 * acc + Head(ds))

\* strconv.Atoi, for numbers within the range of the model
Atoi(s) ==
    LET ds == HexDigits(Unsigned(s))
    IN IF ds = <<>> \/ \E k \in DOMAIN ds : ds[k] < 0 \/ ds[k] > 9
       THEN [err |-> "ErrSyntax", val |-> 0]
       ELSE [err |-> "", val |-> Sign(s) * DecValue(ds, 0)]

(***************************************************************************)
(* 64-bit words. A word is the sequence of its 16 digits in base 16, the   *)
(* most significant first.                                                 *)
(***************************************************************************)
WordDigits == 16

RECURSIVE StripZeros(_)
StripZeros(ds) ==
    IF ds # <<>> /\ Head(ds) = 0 THEN StripZeros(Tail(ds)) ELSE ds

\* the word of the significant digits ds, of which there are at most 16
PadWord(ds) == [k \in 1..(WordDigits - Len(ds)) |-> 0] \o ds

RECURSIVE AddOne(_)
\* word + 1 modulo 2^64
AddOne(word) ==
    IF word = <<>> THEN <<>>
    ELSE IF Last(word) < 15 THEN Front(word) \o <<Last(word) + 1>>
    ELSE AddOne(Front(word)) \o <<0>>

\* the two's complement of a word: the conversion uint64(-x) of Go
Negate(word) == AddOne([k \in 1..Len(word) |-> 15 - word[k]])

\* strconv.ParseInt(s, 16, 64) followed by the conversion uint64(capEff)
\* (part_006:346 and 361): a syntax error for a text that is not an optional
\* sign and hexadecimal digits, a range error when the value is not in
\* -2^63 .. 2^63 - 1
ParseInt16(s) ==
    LET ds == HexDigits(Unsigned(s))
        sig == StripZeros(ds)
        neg == Sign(s) < 0
        tooBig ==
            \/ Len(sig) > WordDigits
            \/ /\ Len(sig) = WordDigits
               /\ \/ sig[1] > 8
                  \/ sig[1] = 8 /\ ~neg
                  \/ sig[1] = 8 /\ \E k \in 2..WordDigits : sig[k] # 0
    IN IF ds = <<>> \/ \E k \in DOMAIN ds : ds[k] < 0
       THEN [err |-> "ErrSyntax", word |-> PadWord(<<>>)]
       ELSE IF tooBig THEN [err |-> "ErrRange", word |-> PadWord(<<>>)]
       ELSE [err |-> "", word |-> IF neg THEN Negate(PadWord(sig)) ELSE PadWord(sig)]

\* the low byte of a word, as an integer: checkPerm reads bits 0 and 1 of
\* proc.cap and no other (part_006:114 and 135)
LowByte(word) == 16 * word[WordDigits - 1] + word[WordDigits]

(***************************************************************************)
(* getProcStatus (part_006:258-294)                                        *)
(*                                                                         *)
(* A status file is [open, readable, lines]: whether os.Open succeeds,     *)
(* whether the scanner reads it to the end without an error, and its lines.*)
(***************************************************************************)
fields == <<"Uid", "Gid", "Groups", "CapEff">>

\* a map[string]string without entries: every key reads as ""
EmptyStatus == [f \in {fields[k] : k \in DOMAIN fields} |-> ""]

\* the loop body for one line (part_006:271-286)
scanLine(status, text) ==
    LET parts == Split(text, ":")
    IN [f \in DOMAIN status |->
           IF parts[1] = f
           THEN (IF Len(parts) > 1 THEN parts[2] ELSE "")
           ELSE status[f]]

RECURSIVE scanLines(_, _)
scanLines(status, lines) ==
    IF lines = <<>> THEN status
    ELSE scanLines(scanLine(status, Head(lines)), Tail(lines))

getProcStatus(file) ==
    IF ~file.open THEN [err |-> "ErrOpen", status |-> EmptyStatus]
    ELSE IF ~file.readable THEN [err |-> "ErrRead", status |-> EmptyStatus]
    ELSE [err |-> "", status |-> scanLines(EmptyStatus, file.lines)]

(***************************************************************************)
(* getProcInfo (part_006:297-365)                                          *)
(***************************************************************************)
\* the words of a field (part_006:305-307)
fieldWords(str) == Split(TrimSpace(ReplaceAllSpace(str)), " ")

NoProcInfo == [uid |-> 0, gid |-> 0, sgid |-> {}, cap |-> PadWord(<<>>)]

\* the error of getProcStatus is assigned and never read (part_006:302)
getProcInfo(file) ==
    LET st == getProcStatus(file)
        status == st.status
        uids == fieldWords(status["Uid"])
        euid == Atoi(uids[2])
        gids == fieldWords(status["Gid"])
        egid == Atoi(gids[2])
        groups == fieldWords(status["Groups"])
        named == {k \in DOMAIN groups : groups[k] # ""}
        capEff == ParseInt16(TrimSpace(status["CapEff"]))
        fail(e) == [err |-> e, pi |-> NoProcInfo]
    IN IF Len(uids) # 4 THEN fail("invalid uid status")
       ELSE IF euid.err # "" THEN fail(euid.err)
       ELSE IF Len(gids) # 4 THEN fail("invalid gid status")
       ELSE IF egid.err # "" THEN fail(egid.err)
       ELSE IF \E k \in named : Atoi(groups[k]).err # "" THEN fail("ErrSyntax")
       ELSE IF capEff.err # "" THEN fail("invalid cap status")
       ELSE [err |-> "",
             pi |-> [uid |-> euid.val, gid |-> egid.val,
                     sgid |-> {Atoi(groups[k]).val : k \in named},
                     cap |-> capEff.word]]

(***************************************************************************)
(* SpecInfo: one call PathAccess(pid, path, mode) (part_006:389-395) for   *)
(* the status files, paths and modes of the bounded input sets.            *)
(*                                                                         *)
(* info.pc is the place in PathAccess: "start" before getProcInfo, "got"   *)
(* after it, "walk" while procPathAccess runs, "done" after return.        *)
(***************************************************************************)
UidLines ==
    {"Uid:\t1\t1\t1\t1", "Uid:\t0\t2\t0\t0", "Uid:\t1\t1", "Uid:\t1\tx\t1\t1"}

GidLines == {"Gid:\t1\t1\t1\t1", "Gid:\t1\t1\t1", "Gid:\t1\t?\t1\t1"}

GroupsLines == {"Groups:\t", "Groups:\t1 2 ", "Groups:\t2 x "}

\* texts of the CapEff field: words with and without bit 63, and texts that
\* are not a word
CapEffTexts ==
    {"0000000000000000", "0000000000000002", "0000000000000004",
     "000001ffffffffff", "7fffffffffffffff", "8000000000000000",
     "ffffffffffffffff", "00000000000000zz", "", "-1"}

StatusFiles ==
    {[open |-> o, readable |-> r,
      lines |-> <<"Name:\tsh", u, g, gr, "CapPrm:\t000001ffffffffff",
                  "CapEff:\t" \o c>>] :
        o \in BOOLEAN, r \in BOOLEAN, u \in UidLines, g \in GidLines,
        gr \in GroupsLines, c \in CapEffTexts}

InfoPaths == {<<"">>, <<"", "">>, <<"", "a", "f">>, <<"", "la">>}

InitInfo ==
    /\ env \in Envs
    /\ proc = Idle
    /\ path \in InfoPaths
    /\ mode = R_OK
    /\ w = Idle
    /\ call = NoCall
    /\ pmon = Idle
    /\ fmon = Idle
    /\ \E f \in StatusFiles :
          info = [pc |-> "start", file |-> f, err |-> "", pi |-> NoProcInfo,
                  ret |-> ""]

\* procInfo, err := getProcInfo(pid) (part_006:390)
GetProcInfo ==
    /\ info.pc = "start"
    /\ LET r == getProcInfo(info.file)
       IN info' = [info EXCEPT !.pc = "got", !.err = r.err, !.pi = r.pi]
    /\ UNCHANGED <<env, proc, path, mode, w, call, pmon, fmon>>

\* if err != nil { return err } (part_006:391-393)
PathAccessFail ==
    /\ info.pc = "got"
    /\ info.err # ""
    /\ info' = [info EXCEPT !.pc = "done", !.ret = info.err]
    /\ UNCHANGED <<env, proc, path, mode, w, call, pmon, fmon>>

\* the call procPathAccess(procInfo, path, mode) (part_006:394)
PathAccessWalk ==
    /\ info.pc = "got"
    /\ info.err = ""
    /\ info' = [info EXCEPT !.pc = "walk"]
    /\ proc' = Principal(info.pi.uid, info.pi.gid, info.pi.sgid,
                         LowByte(info.pi.cap))
    /\ w' = StartWalk
    /\ UNCHANGED <<env, path, mode, call, pmon, fmon>>

\* return of PathAccess with the result of procPathAccess (part_006:394)
PathAccessReturn ==
    /\ info.pc = "walk"
    /\ w.pc = "done"
    /\ info' = [info EXCEPT !.pc = "done", !.ret = w.ret]
    /\ UNCHANGED <<env, proc, path, mode, w, call, pmon, fmon>>

NextInfo ==
    \/ GetProcInfo
    \/ PathAccessFail
    \/ PathAccessWalk
    \/ PathAccessReturn
    \/ Begin
    \/ Return
    \/ Skip
    \/ Advance
    \/ FollowLink
    \/ Check

SpecInfo == InitInfo /\ [][NextInfo]_vars

\* the word a text of up to 16 hexadecimal digits denotes
IsHexWord(str) ==
    /\ str # ""
    /\ Len(str) <= WordDigits
    /\ \A k \in 1..Len(str) : HexVal(Char(str, k)) >= 0

HexWord(str) == PadWord(HexDigits(str))

\* the text of the CapEff field of the status file
CapEffField == TrimSpace(scanLines(EmptyStatus, info.file.lines)["CapEff"])

\* the other fields are well formed: getProcInfo reaches the CapEff field
ReachesCapEff ==
    /\ info.pc \in {"got", "walk", "done"}
    /\ info.file.open
    /\ info.file.readable
    /\ info.err \in {"", "invalid cap status"}

\* C12: when /proc/<pid>/status cannot be opened, getProcInfo and PathAccess
\* fail with the error of the open, not with a credential-format error, and
\* the walker is not run.
C12_ProcessNotFound ==
    (info.pc = "done" /\ ~info.file.open)
        => (info.err = "ErrOpen" /\ info.ret = "ErrOpen" /\ w = Idle)

\* C15: every CapEff field that is the hex string of an unsigned 64-bit
\* integer, bit 63 included, is parsed without error into cap with the same
\* value; only a field that is not such a string fails with the
\* credential-format error.
C15_CapEffParsed ==
    ReachesCapEff =>
        /\ IsHexWord(CapEffField)
              => (info.err = "" /\ info.pi.cap = HexWord(CapEffField))
        /\ info.err = "invalid cap status" => ~IsHexWord(CapEffField)

(***************************************************************************)
(* procPathAccess as a function of its arguments: the steps of the walk    *)
(* taken one after the other until it returns.                             *)
(***************************************************************************)
\* the step the call takes from the place s.pc
step(p, pth, md, s) ==
    CASE s.pc = "start" -> begin(p, pth, s)
      [] s.pc = "loop" ->
            IF s.i > Len(pth) THEN return(s, "nil")
            ELSE IF pth[s.i] = "" THEN skip(pth, s)
            ELSE advance(p, pth, s)
      [] s.pc = "follow" -> followLink(s)
      [] s.pc = "check" -> check(p, md, s)
      [] OTHER -> s

RECURSIVE run(_, _, _, _)
run(p, pth, md, s) ==
    IF s.pc = "done" THEN s ELSE run(p, pth, md, step(p, pth, md, s))

procPathAccess(p, pth, md) == run(p, pth, md, StartWalk)

\* the entries a walk checked, with the mode checked on each
Visited(checks) ==
    [k \in DOMAIN checks |-> <<checks[k].fi.loc, checks[k].aMode, checks[k].perm>>]

\* the same walk from the root: /work/p for the relative path p
ViaWork == procPathAccess(proc, <<"", "work">> \o path, mode)

\* C13: for a relative path p (with or without "." and ".."), the cwd of the
\* process being /work in its root and the walk of /work/p getting past
\* /work, the walk of p visits the same entries below /work and returns the
\* same result as the walk of /work/p.
C13_RelativeAsAbsolute ==
    (/\ Done
     /\ ~IsAbs(path)
     /\ path # <<"">>
     /\ CwdLoc = RootLoc \o <<"work">>
     /\ ViaWork.checks # <<>>
     /\ ViaWork.checks[1].perm)
    => /\ w.ret = ViaWork.ret
       /\ Visited(w.checks) = Visited(Tail(ViaWork.checks))

\* C14: the starting anchor is never followed as a symlink: when cur is the
\* anchor the walk reads no link and goes on to check the anchor itself.
C14_AnchorNotFollowed == w.pc = "follow" => w.cur # Anchor

\* path with the component c put in before its k-th component
Inserted(c, k) == SubSeq(path, 1, k - 1) \o <<c>> \o SubSeq(path, k, Len(path))

\* the places a "." can go: before a named component, after the "/" that
\* makes the path absolute
DotPlaces ==
    {k \in (IF IsAbs(path) THEN 2 ELSE 1)..Len(path) :
        \E j \in k..Len(path) : path[j] # ""}

\* the places an empty component can go: next to an existing "/"
SlashPlaces == 2..Len(path)

\* C16: empty components and "." components are no-ops: an extra "/" next to
\* an existing "/", or a "." component before the last named component, does
\* not change the result of procPathAccess.
C16_DotAndSlashNoOps ==
    (Done /\ path # <<"">> /\ StrLen(path) < PathMax - 2) =>
        /\ \A k \in DotPlaces : procPathAccess(proc, Inserted(".", k), mode).ret = w.ret
        /\ \A k \in SlashPlaces : procPathAccess(proc, Inserted("", k), mode).ret = w.ret

(***************************************************************************)
(* Package pidmonitor (src/pidmonitor): a PidMon holds a table of the pids *)
(* to watch, a monitor goroutine polls /proc for them and sends the exits  *)
(* it finds on EventCh.                                                    *)
(*                                                                         *)
(* The environment: a pid names one process for the whole run (the kernel  *)
(* does not give the pid of a process that exited to a new process while   *)
(* it is watched), os.Stat of /proc/<pid> gives ENOENT for a process that  *)
(* exited and either succeeds or fails on another error for one that runs. *)
(***************************************************************************)
\* pid event types (bit vector)
Exit == 1

\* commands to the monitor goroutine
stop == 0

\* capacity of EventCh
EventChCap == 10

nil == "nil"

validateEvent(event) == event = Exit

eventSet(evect, etype) == evect + etype - BitAnd(evect, etype)

eventClear(evect, etype) == evect - BitAnd(evect, etype)

eventIsSet(evect, etype) == BitAnd(evect, etype) = etype

PidEvent(pid, event, err) == [Pid |-> pid, Event |-> event, Err |-> err]

\* a map with the key k set to v
MapSet(t, k, v) == [x \in DOMAIN t \cup {k} |-> IF x = k THEN v ELSE t[x]]

\* a map without the key k
MapDelete(t, k) == [x \in DOMAIN t \ {k} |-> t[x]]

eventTableAdd(t, e) ==
    IF e.Pid \notin DOMAIN t
    THEN MapSet(t, e.Pid, e.Event)
    ELSE MapSet(t, e.Pid, eventSet(t[e.Pid], e.Event))

\* eventTableRm with a slip: the entry whose vector became empty stays
eventTableRm_keepEmpty(t, e) ==
    IF e.Pid \in DOMAIN t
    THEN MapSet(t, e.Pid, eventClear(t[e.Pid], e.Event))
    ELSE t

eventTableRm(t, e) ==
    IF e.Pid \in DOMAIN t
    THEN LET evect == eventClear(t[e.Pid], e.Event)
         IN  IF evect = 0 THEN MapDelete(t, e.Pid) ELSE MapSet(t, e.Pid, evect)
    ELSE t

\* what os.Stat("/proc/<pid>") can give
StatProc(pid) == IF pid \in pmon.alive THEN {nil} \cup pmon.statErrs ELSE {"ENOENT"}

\* pidExists, given the error of os.Stat
pidExists(statErr) ==
    IF statErr = "ENOENT" THEN [alive |-> FALSE, err |-> nil]
    ELSE IF statErr # nil THEN [alive |-> FALSE, err |-> statErr]
    ELSE [alive |-> TRUE, err |-> nil]

\* bounds of the pidmonitor model
MaxPid == 2
MaxCalls == 2
MaxEvents == 2

\* the lists of Exit events on the given pids
ExitLists(pids) ==
    UNION {[1..n -> {PidEvent(p, Exit, nil) : p \in pids}] : n \in 1..MaxEvents}

\* lists with an event vector validateEvent rejects
BadLists == {<<PidEvent(1, 0, nil)>>, <<PidEvent(1, Exit, nil), PidEvent(MaxPid, 0, nil)>>}

\* the processes there are, the calls the client makes and their arguments,
\* the errors os.Stat has on /proc: some processes and a few calls of
\* AddEvent and RemoveEvent; the same with one process and a /proc that
\* fails; one process and enough calls of AddEvent to fill EventCh
PidWorlds ==
    {[pids |-> 1..MaxPid, calls |-> MaxCalls, ops |-> {"AddEvent", "RemoveEvent"},
      lists |-> ExitLists(1..MaxPid) \cup BadLists, statErrs |-> {}],
     [pids |-> {1}, calls |-> MaxCalls, ops |-> {"AddEvent", "RemoveEvent"},
      lists |-> ExitLists({1}), statErrs |-> {"EIO"}],
     [pids |-> {1}, calls |-> EventChCap + 1, ops |-> {"AddEvent"},
      lists |-> ExitLists({1}), statErrs |-> {}]}

\* the locals of pidMonitor at the top of its loop
MonTop == [pc |-> "select", eventList |-> <<>>, rmList |-> <<>>, todo |-> {}]

NoClient ==
    [pc |-> "idle", op |-> "", events |-> <<>>, i |-> 1, err |-> nil, swept |-> {}]

\* New(cfg): an empty table, the two channels, the monitor goroutine started
New(world) ==
    [pc |-> "run",
     pids |-> world.pids,
     calls |-> world.calls,       \* calls the client still makes
     ops |-> world.ops,
     lists |-> world.lists,
     statErrs |-> world.statErrs,
     alive |-> world.pids,        \* the processes that have not exited
     mu |-> "free",               \* pm.mu: free, or who holds it
     eventTable |-> <<>>,         \* pm.eventTable
     cmdCh |-> <<>>,              \* the commands of the senders blocked on pm.cmdCh
     EventCh |-> <<>>,            \* the buffer of pm.EventCh
     mon |-> MonTop,              \* the monitor goroutine
     client |-> NoClient,         \* the goroutine calling AddEvent and RemoveEvent
     closer |-> "idle",           \* the goroutine calling Close
     waiter |-> [pc |-> "idle", ret |-> <<>>],   \* the goroutine calling WaitEvent
     \* history: per pid, the entries AddEvent created, less the entries
     \* RemoveEvent deleted and the events WaitEvent returned
     owed |-> [p \in world.pids |-> 0]]

InitPid ==
    /\ env = Idle /\ proc = Idle /\ path = <<>> /\ mode = 0
    /\ w = Idle /\ call = Idle /\ info = Idle /\ fmon = Idle
    /\ \E world \in PidWorlds : pmon = New(world)

PidRest == <<env, proc, path, mode, w, call, info, fmon>>

\* a process exits
ProcessExit ==
    /\ pmon.pc = "run"
    /\ \E pid \in pmon.alive : pmon' = [pmon EXCEPT !.alive = @ \ {pid}]
    /\ UNCHANGED PidRest

\* the client calls AddEvent(events) or RemoveEvent(events)
ClientCall ==
    /\ pmon.pc = "run"
    /\ pmon.client.pc \in {"idle", "returned"}
    /\ pmon.calls > 0
    /\ \E op \in pmon.ops, events \in pmon.lists :
         pmon' = [pmon EXCEPT
                    !.calls = @ - 1,
                    !.client = [pc |-> "loop", op |-> op, events |-> events,
                                i |-> 1, err |-> nil, swept |-> {}]]
    /\ UNCHANGED PidRest

\* one turn of the loop of AddEvent: validateEvent, then eventTableAdd under
\* pm.mu; after the last event AddEvent returns nil
AddEvent ==
    /\ pmon.pc = "run"
    /\ pmon.client.pc = "loop" /\ pmon.client.op = "AddEvent"
    /\ pmon.client.i <= Len(pmon.client.events)
    /\ LET e == pmon.client.events[pmon.client.i] IN
         IF ~validateEvent(e.Event)
         THEN pmon' = [pmon EXCEPT !.client.pc = "returned",
                                   !.client.err = "Unknown event"]
         ELSE /\ pmon.mu = "free"
              /\ pmon' = [pmon EXCEPT
                    !.eventTable = eventTableAdd(@, e),
                    !.owed[e.Pid] = IF e.Pid \in DOMAIN pmon.eventTable THEN @ ELSE @ + 1,
                    !.client.swept = @ \ {e.Pid},
                    !.client.i = @ + 1,
                    !.client.pc = IF pmon.client.i = Len(pmon.client.events)
                                  THEN "returned" ELSE @]
    /\ UNCHANGED PidRest

\* one turn of the loop of RemoveEvent
RemoveEvent ==
    /\ pmon.pc = "run"
    /\ pmon.client.pc = "loop" /\ pmon.client.op = "RemoveEvent"
    /\ pmon.client.i <= Len(pmon.client.events)
    /\ LET e == pmon.client.events[pmon.client.i] IN
         IF ~validateEvent(e.Event)
         THEN pmon' = [pmon EXCEPT !.client.pc = "returned",
                                   !.client.err = "Unknown event"]
         ELSE /\ pmon.mu = "free"
              /\ pmon' = [pmon EXCEPT
                    !.eventTable = eventTableRm(@, e),
                    !.owed[e.Pid] =
                        IF e.Pid \in DOMAIN pmon.eventTable
                           /\ e.Pid \notin DOMAIN eventTableRm(pmon.eventTable, e)
                        THEN @ - 1 ELSE @,
                    !.client.i = @ + 1,
                    !.client.pc = IF pmon.client.i = Len(pmon.client.events)
                                  THEN "returned" ELSE @]
    /\ UNCHANGED PidRest

\* the sweep with a slip: the events that hit stay in the table
eventTableRmAll_none(t, rmList) == t

RECURSIVE eventTableRmAll(_, _)
\* the loop over rmList at the end of a sweep
eventTableRmAll(t, rmList) ==
    IF rmList = <<>> THEN t
    ELSE eventTableRmAll(eventTableRm(t, Head(rmList)), Tail(rmList))

\* the pids of an event list
PidsOf(list) == {list[k].Pid : k \in DOMAIN list}

\* the select at the top of the loop of pidMonitor: a command when a sender
\* waits on cmdCh, the default case otherwise
MonSelect ==
    /\ pmon.pc = "run"
    /\ pmon.mon.pc = "select"
    /\ IF pmon.cmdCh # <<>>
       THEN pmon' = [pmon EXCEPT
                       !.cmdCh = Tail(@),
                       !.closer = "returned",
                       !.mon.pc = IF Head(pmon.cmdCh) = stop THEN "stopping" ELSE "lock"]
       ELSE pmon' = [pmon EXCEPT !.mon.pc = "lock"]
    /\ UNCHANGED PidRest

\* on stop: pm.EventCh <- eventList (empty), then return
MonStop ==
    /\ pmon.pc = "run"
    /\ pmon.mon.pc = "stopping"
    /\ Len(pmon.EventCh) < EventChCap
    /\ pmon' = [pmon EXCEPT !.EventCh = Append(@, pmon.mon.eventList),
                            !.mon.pc = "stopped"]
    /\ UNCHANGED PidRest

\* pm.mu.Lock(), and the start of the range over pm.eventTable
MonLock ==
    /\ pmon.pc = "run"
    /\ pmon.mon.pc = "lock"
    /\ pmon.mu = "free"
    /\ pmon' = [pmon EXCEPT !.mu = "monitor",
                            !.mon.pc = "scan",
                            !.mon.todo = DOMAIN pmon.eventTable]
    /\ UNCHANGED PidRest

\* one turn of the range over pm.eventTable, in the order the map gives
MonScan ==
    /\ pmon.pc = "run"
    /\ pmon.mon.pc = "scan"
    /\ \E pid \in pmon.mon.todo : \E statErr \in StatProc(pid) :
         LET r == pidExists(statErr)
             hit == /\ eventIsSet(pmon.eventTable[pid], Exit)
                    /\ (r.err # nil \/ ~r.alive)
         IN  pmon' = [pmon EXCEPT
                 !.mon.todo = @ \ {pid},
                 !.mon.eventList =
                     IF hit THEN Append(@, PidEvent(pid, Exit, r.err)) ELSE @,
                 !.mon.rmList =
                     IF hit THEN Append(@, PidEvent(pid, Exit, nil)) ELSE @]
    /\ UNCHANGED PidRest

\* after the range: the event list, when not empty, is sent on EventCh
MonSend ==
    /\ pmon.pc = "run"
    /\ pmon.mon.pc = "scan"
    /\ pmon.mon.todo = {}
    /\ IF Len(pmon.mon.eventList) > 0
       THEN /\ Len(pmon.EventCh) < EventChCap
            /\ pmon' = [pmon EXCEPT !.EventCh = Append(@, pmon.mon.eventList),
                                    !.mon.pc = "rm"]
       ELSE pmon' = [pmon EXCEPT !.mon.pc = "rm"]
    /\ UNCHANGED PidRest

\* the events of rmList leave the table, pm.mu.Unlock(); then the goroutine
\* sleeps for the poll period and starts the next turn of its loop
MonRemove ==
    /\ pmon.pc = "run"
    /\ pmon.mon.pc = "rm"
    /\ pmon' = [pmon EXCEPT
                  !.eventTable = eventTableRmAll(@, pmon.mon.rmList),
                  !.mu = "free",
                  !.client.swept = @ \cup PidsOf(pmon.mon.rmList),
                  !.mon = MonTop]
    /\ UNCHANGED PidRest

\* Close(): pm.cmdCh <- stop, which returns when the monitor receives it
Close ==
    /\ pmon.pc = "run"
    /\ pmon.closer = "idle"
    /\ pmon' = [pmon EXCEPT !.closer = "sending", !.cmdCh = Append(@, stop)]
    /\ UNCHANGED PidRest

\* WaitEvent() is called
WaitEvent ==
    /\ pmon.pc = "run"
    /\ pmon.waiter.pc \in {"idle", "returned"}
    /\ pmon' = [pmon EXCEPT !.waiter.pc = "waiting"]
    /\ UNCHANGED PidRest

\* WaitEvent() receives a list from EventCh and returns it
WaitEventReturn ==
    /\ pmon.pc = "run"
    /\ pmon.waiter.pc = "waiting"
    /\ pmon.EventCh # <<>>
    /\ LET list == Head(pmon.EventCh) IN
         pmon' = [pmon EXCEPT
                    !.EventCh = Tail(@),
                    !.waiter = [pc |-> "returned", ret |-> list],
                    !.owed = [p \in DOMAIN @ |->
                                @[p] - Cardinality({k \in DOMAIN list : list[k].Pid = p})]]
    /\ UNCHANGED PidRest

Monitor ==
    MonSelect \/ MonStop \/ MonLock \/ MonScan \/ MonSend \/ MonRemove

NextPid ==
    \/ ProcessExit
    \/ ClientCall \/ AddEvent \/ RemoveEvent
    \/ MonSelect \/ MonStop \/ MonLock \/ MonScan \/ MonSend \/ MonRemove
    \/ Close
    \/ WaitEvent \/ WaitEventReturn

SpecPid == InitPid /\ [][NextPid]_vars

\* the Go scheduler runs every goroutine that can run: the monitor takes its
\* next step, and a WaitEvent that waits on a non-empty EventCh receives.
\* Whether the clients call at all is up to them.
SpecPidFair ==
    /\ SpecPid
    /\ WF_vars(Monitor)
    /\ WF_vars(WaitEventReturn)

(***************************************************************************)
(* Claims on package pidmonitor                                            *)
(***************************************************************************)
\* the events on pid p in an event list
EventsOn(list, p) == Cardinality({k \in DOMAIN list : list[k].Pid = p})

RECURSIVE InEventCh(_, _)
\* the events on pid p in the lists ch
InEventCh(ch, p) ==
    IF ch = <<>> THEN 0 ELSE EventsOn(Head(ch), p) + InEventCh(Tail(ch), p)

Watched(p) == p \in DOMAIN pmon.eventTable

\* the sweep has sent the event of p and not yet taken p out of the table
SentNotRemoved(p) == pmon.mon.pc = "rm" /\ p \in PidsOf(pmon.mon.rmList)

\* every entry AddEvent created and RemoveEvent did not delete is in the
\* table, or is one event on its way to WaitEvent, or is one event WaitEvent
\* returned
OneEventPerEntry ==
    \A p \in pmon.pids :
        pmon.owed[p] = InEventCh(pmon.EventCh, p)
                       + (IF Watched(p) /\ ~SentNotRemoved(p) THEN 1 ELSE 0)

\* an event without error is the event of a process that exited
ExitEventsOfExited ==
    \A k \in DOMAIN pmon.EventCh : \A j \in DOMAIN pmon.EventCh[k] :
        LET e == pmon.EventCh[k][j] IN
            e.Event = Exit /\ (e.Err = nil => e.Pid \notin pmon.alive)

\* an exit of p is to be reported
Due(p) ==
    /\ p \in pmon.pids
    /\ \/ Watched(p) /\ p \notin pmon.alive
       \/ InEventCh(pmon.EventCh, p) > 0

Returned(op) ==
    /\ pmon.pc = "run"
    /\ pmon.client.pc = "returned"
    /\ pmon.client.op = op
    /\ pmon.client.err = nil

\* the pids of the events given to the client's call
Given == PidsOf(pmon.client.events)

ExitSet(p) == Watched(p) /\ eventIsSet(pmon.eventTable[p], Exit)

NoEmptyVector == \A p \in DOMAIN pmon.eventTable : pmon.eventTable[p] # 0

\* C18 as stated: after AddEvent the table maps each given pid to an event
\* vector with Exit set, after RemoveEvent of the events the pid is absent
\* from the table, and no pid is ever mapped to the empty event vector 0.
C18_AsClaimed ==
    pmon.pc = "run" =>
        /\ Returned("AddEvent") => \A p \in Given : ExitSet(p)
        /\ Returned("RemoveEvent") => \A p \in Given : ~Watched(p)
        /\ NoEmptyVector

\* C18 as amended: after AddEvent the table maps each given pid to an event
\* vector with Exit set, except the pids a monitor sweep has reported and
\* removed since the call added them; after RemoveEvent the given pids are
\* absent; no pid is ever mapped to the empty event vector 0.
C18_EventTable ==
    pmon.pc = "run" =>
        /\ Returned("AddEvent") =>
              \A p \in Given : IF p \in pmon.client.swept THEN ~Watched(p) ELSE ExitSet(p)
        /\ Returned("RemoveEvent") => \A p \in Given : ~Watched(p)
        /\ NoEmptyVector

\* AddEvent of two pids has returned, a sweep took one of them out of the
\* table meanwhile, the other one is in the table with Exit set
C18_Witness ==
    /\ Returned("AddEvent")
    /\ \E p, q \in Given : /\ p # q
                           /\ p \in pmon.client.swept /\ ~Watched(p)
                           /\ q \notin pmon.client.swept /\ ExitSet(q)

\* C19: after Close() is called, Close eventually returns, the monitor
\* goroutine stops, and a WaitEvent call that is pending (or the one call made
\* while Close runs) returns, whatever the state of the event table and of
\* EventCh.
C19_CloseStops ==
    /\ (pmon.pc = "run" /\ pmon.closer = "sending")
          ~> (pmon.closer = "returned" /\ pmon.mon.pc = "stopped")
    /\ (pmon.pc = "run" /\ pmon.closer = "sending" /\ pmon.waiter.pc = "waiting")
          ~> (pmon.waiter.pc = "returned")

(***************************************************************************)
(* Package fileMonitor (src/unnamed/part_000:99-194, part_001): a FileMon  *)
(* holds a table of files to watch; a monitor goroutine, started by Add    *)
(* when none runs, polls the files on every tick and sends the files that  *)
(* are gone on the event channel; it exits when the table is empty.        *)
(*                                                                         *)
(* The environment: files are deleted and not created again while they are *)
(* watched; os.Stat of a file gives ENOENT when it is gone and either      *)
(* succeeds or fails on another error when it is there.                    *)
(***************************************************************************)
\* bounds of the fileMonitor model
MaxFmCalls == 3
MaxBuf == 1

\* the files there are
FileNames == {"a", "b"}

Event(filename, err) == [Filename |-> filename, Err |-> err]

\* the files of an event list
NamesOf(list) == {list[k].Filename : k \in DOMAIN list}

\* the files there are, the calls of Add and Remove the client makes,
\* cfg.EventBufSize, the errors os.Stat has
FmWorlds ==
    {[files |-> FileNames, calls |-> MaxFmCalls, buf |-> b, statErrs |-> {}] :
        b \in 1..MaxBuf}
    \cup {[files |-> {"a"}, calls |-> MaxFmCalls, buf |-> 1, statErrs |-> {"EACCES"}]}

\* no monitor goroutine
NoMon == [pc |-> "none", eventList |-> <<>>, rmList |-> <<>>, todo |-> {}]

\* go fileMon(fm): the goroutine before its select, eventList empty
MonStart == [pc |-> "select", eventList |-> <<>>, rmList |-> <<>>, todo |-> {}]

\* New(cfg) of FileMon: an empty table, no goroutine
NewFileMon(world, exists) ==
    [pc |-> "run",
     files |-> world.files,
     calls |-> world.calls,       \* calls the client still makes
     statErrs |-> world.statErrs,
     EventBufSize |-> world.buf,  \* fm.cfg.EventBufSize
     exists |-> exists,           \* the files in the file system
     mu |-> "free",               \* fm.mu: free, or who holds it
     fileTable |-> {},            \* the keys of fm.fileTable
     running |-> FALSE,           \* fm.running
     stopCh |-> "open",           \* fm.stopCh: open or closed
     eventCh |-> <<>>,            \* the buffer of fm.eventCh
     mon |-> NoMon,               \* the monitor goroutine
     consumer |-> [pc |-> "idle", ret |-> <<>>],  \* the goroutine receiving on Events()
     \* history: per file, the calls of Add less the events sent; the files
     \* Remove took out while they were there and Add has not put back
     credit |-> [f \in world.files |-> 0],
     unwatched |-> {}]

InitFm ==
    /\ env = Idle /\ proc = Idle /\ path = <<>> /\ mode = 0
    /\ w = Idle /\ call = Idle /\ info = Idle /\ pmon = Idle
    /\ \E world \in FmWorlds : \E exists \in SUBSET world.files :
          fmon = NewFileMon(world, exists)

FmRest == <<env, proc, path, mode, w, call, info, pmon>>

\* a file is deleted
FileDelete ==
    /\ fmon.pc = "run"
    /\ \E f \in fmon.exists : fmon' = [fmon EXCEPT !.exists = @ \ {f}]
    /\ UNCHANGED FmRest

\* FileMon.Add(file)
Add ==
    /\ fmon.pc = "run"
    /\ fmon.calls > 0
    /\ fmon.mu = "free"
    /\ \E file \in fmon.files :
         fmon' = [fmon EXCEPT
                    !.calls = @ - 1,
                    !.fileTable = @ \cup {file},
                    !.credit[file] = @ + 1,
                    !.unwatched = @ \ {file},
                    !.running = TRUE,
                    !.mon = IF ~fmon.running THEN MonStart ELSE @]
    /\ UNCHANGED FmRest

\* FileMon.Remove(file)
Remove ==
    /\ fmon.pc = "run"
    /\ fmon.calls > 0
    /\ fmon.mu = "free"
    /\ \E file \in fmon.files :
         fmon' = [fmon EXCEPT
                    !.calls = @ - 1,
                    !.fileTable = @ \ {file},
                    !.unwatched = IF file \in fmon.exists THEN @ \cup {file} ELSE @]
    /\ UNCHANGED FmRest

\* FileMon.Close(): close(fm.stopCh)
FmClose ==
    /\ fmon.pc = "run"
    /\ fmon.stopCh = "open"
    /\ fmon' = [fmon EXCEPT !.stopCh = "closed"]
    /\ UNCHANGED FmRest

\* what os.Stat(file) can give
StatFile(file) ==
    IF file \in fmon.exists THEN {nil} \cup fmon.statErrs ELSE {"ENOENT"}

\* checkFileExists, given the error of os.Stat
checkFileExists(statErr) ==
    IF statErr = "ENOENT" THEN [exists |-> FALSE, err |-> nil]
    ELSE IF statErr # nil THEN [exists |-> FALSE, err |-> statErr]
    ELSE [exists |-> TRUE, err |-> nil]

\* the select of fileMon takes the tick: checkFiles locks fm.mu and starts
\* its range over fm.fileTable with an empty event list
FmTick ==
    /\ fmon.pc = "run"
    /\ fmon.mon.pc = "select"
    /\ fmon.mu = "free"
    /\ fmon' = [fmon EXCEPT !.mu = "monitor",
                            !.mon = [pc |-> "scan", eventList |-> <<>>,
                                     rmList |-> <<>>, todo |-> fmon.fileTable]]
    /\ UNCHANGED FmRest

\* the select of fileMon takes the closed stopCh
FmStop ==
    /\ fmon.pc = "run"
    /\ fmon.mon.pc = "select"
    /\ fmon.stopCh = "closed"
    /\ fmon' = [fmon EXCEPT !.mon.pc = "stopping"]
    /\ UNCHANGED FmRest

\* on stop: fm.eventCh <- eventList (empty), then return
FmStopSend ==
    /\ fmon.pc = "run"
    /\ fmon.mon.pc = "stopping"
    /\ Len(fmon.eventCh) < fmon.EventBufSize
    /\ fmon' = [fmon EXCEPT !.eventCh = Append(@, <<>>), !.mon.pc = "exit"]
    /\ UNCHANGED FmRest

\* one turn of the range of checkFiles over fm.fileTable
FmScan ==
    /\ fmon.pc = "run"
    /\ fmon.mon.pc = "scan"
    /\ \E filename \in fmon.mon.todo : \E statErr \in StatFile(filename) :
         LET r == checkFileExists(statErr)
             hit == r.err # nil \/ ~r.exists
         IN  fmon' = [fmon EXCEPT
                 !.mon.todo = @ \ {filename},
                 !.mon.eventList = IF hit THEN Append(@, Event(filename, r.err)) ELSE @,
                 !.mon.rmList = IF hit THEN Append(@, Event(filename, nil)) ELSE @]
    /\ UNCHANGED FmRest

\* after the range, with a slip: checkFiles goes on to the send with fm.mu
\* held
FmUnlock_keepLock ==
    /\ fmon.pc = "run"
    /\ fmon.mon.pc = "scan"
    /\ fmon.mon.todo = {}
    /\ fmon' = [fmon EXCEPT !.mon.pc = "send"]
    /\ UNCHANGED FmRest

\* after the range checkFiles unlocks fm.mu
FmUnlock ==
    /\ fmon.pc = "run"
    /\ fmon.mon.pc = "scan"
    /\ fmon.mon.todo = {}
    /\ fmon' = [fmon EXCEPT !.mu = "free", !.mon.pc = "send"]
    /\ UNCHANGED FmRest

\* the event list, when not empty, is sent on eventCh
FmSend ==
    /\ fmon.pc = "run"
    /\ fmon.mon.pc = "send"
    /\ IF Len(fmon.mon.eventList) > 0
       THEN /\ Len(fmon.eventCh) < fmon.EventBufSize
            /\ fmon' = [fmon EXCEPT
                    !.eventCh = Append(@, fmon.mon.eventList),
                    !.credit = [f \in DOMAIN @ |->
                                  IF f \in NamesOf(fmon.mon.eventList) THEN @[f] - 1 ELSE @[f]],
                    !.mon.pc = "rm"]
       ELSE fmon' = [fmon EXCEPT !.mon.pc = "rm"]
    /\ UNCHANGED FmRest

\* the loop over rmList at the end of checkFiles, with a slip: nothing is
\* deleted
deleteAll_none(fileTable, rmList) == fileTable

\* the loop over rmList at the end of checkFiles
deleteAll(fileTable, rmList) == fileTable \ NamesOf(rmList)

\* under fm.mu again, the files of rmList leave the table
FmRemove ==
    /\ fmon.pc = "run"
    /\ fmon.mon.pc = "rm"
    /\ fmon.mu = "free"
    /\ fmon' = [fmon EXCEPT !.fileTable = deleteAll(@, fmon.mon.rmList),
                            !.mon.pc = "empty"]
    /\ UNCHANGED FmRest

\* back in fileMon: under fm.mu, is the table empty? If so return
FmTableEmpty ==
    /\ fmon.pc = "run"
    /\ fmon.mon.pc = "empty"
    /\ fmon.mu = "free"
    /\ fmon' = [fmon EXCEPT !.mon = IF fmon.fileTable = {}
                                    THEN [MonStart EXCEPT !.pc = "exit"]
                                    ELSE MonStart]
    /\ UNCHANGED FmRest

\* the deferred function of fileMon: under fm.mu, running = false
FmExit ==
    /\ fmon.pc = "run"
    /\ fmon.mon.pc = "exit"
    /\ fmon.mu = "free"
    /\ fmon' = [fmon EXCEPT !.running = FALSE, !.mon = NoMon]
    /\ UNCHANGED FmRest

\* the consumer starts a receive on Events()
EventsWait ==
    /\ fmon.pc = "run"
    /\ fmon.consumer.pc \in {"idle", "returned"}
    /\ fmon' = [fmon EXCEPT !.consumer.pc = "waiting"]
    /\ UNCHANGED FmRest

\* the receive on Events() gets a list
EventsReceive ==
    /\ fmon.pc = "run"
    /\ fmon.consumer.pc = "waiting"
    /\ fmon.eventCh # <<>>
    /\ fmon' = [fmon EXCEPT !.eventCh = Tail(@),
                            !.consumer = [pc |-> "returned", ret |-> Head(fmon.eventCh)]]
    /\ UNCHANGED FmRest

fileMon ==
    \/ FmTick \/ FmStop \/ FmStopSend \/ FmScan \/ FmUnlock \/ FmSend
    \/ FmRemove \/ FmTableEmpty \/ FmExit

NextFm ==
    \/ FileDelete
    \/ Add \/ Remove \/ FmClose
    \/ FmTick \/ FmStop \/ FmStopSend \/ FmScan \/ FmUnlock \/ FmSend
    \/ FmRemove \/ FmTableEmpty \/ FmExit
    \/ EventsWait \/ EventsReceive

SpecFm == InitFm /\ [][NextFm]_vars

\* the Go scheduler runs every goroutine that can run and the ticker keeps
\* ticking: the monitor goroutine takes its next step, and a receive that
\* waits on a non-empty eventCh gets its list. Whether the clients call at
\* all is up to them.
SpecFmFair ==
    /\ SpecFm
    /\ WF_vars(fileMon)
    /\ WF_vars(EventsReceive)

(***************************************************************************)
(* Claims on package fileMonitor                                           *)
(***************************************************************************)
RECURSIVE InEventChFm(_, _)
\* the events on file f in the lists ch
InEventChFm(ch, f) ==
    IF ch = <<>> THEN 0
    ELSE (IF f \in NamesOf(Head(ch)) THEN 1 ELSE 0) + InEventChFm(Tail(ch), f)

\* the removal of f is to be reported: f is watched and gone, or its event is
\* on its way to the consumer
DueFm(f) ==
    /\ f \in fmon.files
    /\ \/ f \in fmon.fileTable /\ f \notin fmon.exists
       \/ InEventChFm(fmon.eventCh, f) > 0

\* C20: every file passed to Add that does not exist, or is deleted while it
\* is in the watch table, is eventually reported on Events() by an event with
\* its name, under every interleaving of Add with the monitor goroutine,
\* provided the consumer keeps receiving and Close was not called (and the
\* file is not taken out with Remove).
C20_EventuallyReported ==
    ([]<>(fmon.pc = "run" /\ fmon.consumer.pc = "waiting"))
       => \A f \in FileNames :
             (fmon.pc = "run" /\ DueFm(f))
                ~> (~DueFm(f) \/ fmon.stopCh = "closed")

\* the event lists sent and not yet overwritten: on eventCh, in the hands of
\* the consumer, and the list the goroutine has just sent
SentLists ==
    {fmon.eventCh[k] : k \in DOMAIN fmon.eventCh}
    \cup {fmon.consumer.ret}
    \cup (IF fmon.mon.pc \in {"rm", "empty"} THEN {fmon.mon.eventList} ELSE {})

SentEvents == UNION {{list[k] : k \in DOMAIN list} : list \in SentLists}

\* no file has more events than calls of Add
OncePerAdd == \A f \in fmon.files : fmon.credit[f] >= 0

\* the delete loop of a sweep takes the files of the list it sent out of the
\* table
DroppedAfterSend ==
    (fmon.pc = "run" /\ fmon.mon.pc = "rm" /\ fmon'.mon.pc = "empty")
        => NamesOf(fmon.mon.eventList) \cap fmon'.fileTable = {}

\* C21 as stated: each watched file is reported at most once per Add, every
\* reported Filename was passed to Add and was found missing, and the file is
\* dropped from the watch table after its event is sent.
C21_AsClaimed ==
    /\ [](fmon.pc = "run" =>
            /\ OncePerAdd
            /\ \A e \in SentEvents :
                  e.Filename \in fmon.files /\ e.Filename \notin fmon.exists)
    /\ [][DroppedAfterSend]_vars

\* C21 as amended: each watched file is reported at most once per Add, every
\* reported Filename was passed to Add and was found missing or, when the
\* event carries an error, could not be examined, and the file is dropped
\* from the watch table after its event is sent.
C21_ExactlyOnce ==
    /\ [](fmon.pc = "run" =>
            /\ OncePerAdd
            /\ \A e \in SentEvents :
                  /\ e.Filename \in fmon.files
                  /\ e.Err = nil => e.Filename \notin fmon.exists)
    /\ [][DroppedAfterSend]_vars

\* the consumer holds the event of a missing file that was added once, and
\* the sweep that sent it has dropped the file from the table
C21_Witness ==
    /\ fmon.pc = "run"
    /\ fmon.consumer.pc = "returned"
    /\ \E k \in DOMAIN fmon.consumer.ret :
         LET e == fmon.consumer.ret[k] IN
            /\ e.Err = nil
            /\ e.Filename \notin fmon.exists
            /\ e.Filename \notin fmon.fileTable
            /\ fmon.credit[e.Filename] = 0

\* the consumer receives a list
Delivered == fmon.consumer.pc = "waiting" /\ fmon'.consumer.pc = "returned"

\* no event without error is delivered for a file that Remove took out
\* before it was deleted and that was not added again
NoEventAfterRemove ==
    (fmon.pc = "run" /\ Delivered) =>
        \A k \in DOMAIN fmon'.consumer.ret :
            LET e == fmon'.consumer.ret[k] IN
                e.Err = nil => e.Filename \notin fmon.unwatched

\* C22: if Remove(file) returns before the file is deleted and the file is
\* not added again, no event for that file is ever delivered on Events(),
\* while the other watched files are still reported (to a consumer that keeps
\* receiving, Close not called).
C22_RemoveSilences ==
    /\ [][NoEventAfterRemove]_vars
    /\ ([]<>(fmon.pc = "run" /\ fmon.consumer.pc = "waiting"))
          => \A g \in FileNames :
                (fmon.pc = "run" /\ fmon.unwatched # {} /\ DueFm(g))
                   ~> (~DueFm(g) \/ fmon.stopCh = "closed")

\* the monitor goroutine is at the send of its event list and EventCh is full
BlockedInSend ==
    /\ pmon.pc = "run"
    /\ pmon.mon.pc = "scan" /\ pmon.mon.todo = {}
    /\ Len(pmon.mon.eventList) > 0
    /\ Len(pmon.EventCh) = EventChCap

\* C28: AddEvent and RemoveEvent always eventually return whatever the
\* consumer does: the monitor goroutine never blocks pushing to EventCh while
\* it holds pm.mu, also when more than 10 event lists are pending.
C28_NeverBlocksHoldingMu == BlockedInSend => pmon.mu # "monitor"

\* the monitor goroutine is at a send on eventCh
AtSendFm == fmon.pc = "run" /\ fmon.mon.pc \in {"send", "stopping"}

\* C29: the monitor goroutine never holds fm.mu while it sends on the event
\* channel, and it gives fm.mu back whenever it took it: Add and Remove find
\* the mutex free again, also when the channel is full and nobody receives.
C29_NoLockWhileSending ==
    /\ [](AtSendFm => fmon.mu = "free")
    /\ (fmon.pc = "run" /\ fmon.mu = "monitor") ~> (fmon.mu = "free")

\* the goroutine is blocked in the send of an event list, the channel being
\* full and no receive pending, and Remove has returned meanwhile: a file of
\* the list, in the table during the whole sweep, is in the table no more
C29_Witness ==
    /\ fmon.pc = "run" /\ fmon.mon.pc = "send"
    /\ Len(fmon.mon.eventList) > 0
    /\ Len(fmon.eventCh) = fmon.EventBufSize
    /\ fmon.consumer.pc # "waiting"
    /\ fmon.mu = "free"
    /\ \E f \in NamesOf(fmon.mon.eventList) : f \notin fmon.fileTable

(***************************************************************************)
(* Further properties of procPathAccess and checkPerm (package pathres)    *)
(***************************************************************************)
\* the walk is at the head of the loop, at a named component
AtNamed == w.pc = "loop" /\ w.i <= Len(path) /\ path[w.i] # ""

\* one step of the walk keeps the order of the checks: the components are
\* taken in path order, the walk moves to the next one only when the
\* component is empty or its permission check was granted; a missing
\* candidate gives ENOENT and an entry that is no symlink, not final and no
\* directory gives ENOTDIR, both before any permission check of the
\* component; the symlink loop fails with ELOOP, ENOENT or ENOTDIR, never
\* hands an entry that is not final and no directory to the permission
\* check, and makes no permission check; the permission check fails with
\* EACCES, whether the next component exists or not
InOrder ==
    /\ w.pc \in {"loop", "follow", "check"} => w'.i \in {w.i, w.i + 1}
    /\ w'.i = w.i + 1 =>
          \/ w.pc = "loop" /\ path[w.i] = "" /\ w'.checks = w.checks
          \/ /\ w.pc = "check"
             /\ Len(w'.checks) = Len(w.checks) + 1
             /\ w'.checks[Len(w'.checks)].perm
    /\ AtNamed =>
          LET cand == candidate(proc, path[w.i], w.cur)
              fi == Stat(cand)
              sl == isSymlink(cand)
          IN /\ w'.checks = w.checks
             /\ fi.err # "" => (w'.pc = "done" /\ w'.ret = "ENOENT")
             /\ (fi.err = "" /\ sl.err = "" /\ ~sl.is /\ ~isFinal(path, w) /\ ~fi.isDir)
                   => (w'.pc = "done" /\ w'.ret = "ENOTDIR")
    /\ w.pc = "follow" =>
          /\ w'.checks = w.checks
          /\ w'.pc = "done" => w'.ret \in {"ELOOP", "ENOENT", "ENOTDIR"}
          /\ w'.pc = "check" => (w.final \/ Stat(w'.cur).isDir)
    /\ w.pc = "check" =>
          /\ w'.pc = "done" => w'.ret = "EACCES"
          /\ ~checkPerm(proc, w.cur, IF w.final THEN mode ELSE X_OK).perm
                => (w'.pc = "done" /\ w'.ret = "EACCES")

\* C23: procPathAccess takes the components in path order and stops at the
\* first failure; for one component the failures have the precedence
\* ENOENT, ENOTDIR for an entry that is no symlink, then ELOOP, ENOENT or
\* ENOTDIR of the symlink resolution, then EACCES: a component without
\* search permission followed by a missing one gives EACCES, a regular file
\* that is not final gives ENOTDIR whatever its permission bits.
C23_OrderAndPrecedence ==
    /\ [][InOrder]_vars
    /\ [](Done => \A k \in DOMAIN w.checks : k < Len(w.checks) => w.checks[k].perm)

\* the walk ended with EACCES at a directory without search permission for
\* the principal, after an earlier component had passed, and the component
\* after it does not exist
C23_Witness ==
    /\ Done /\ w.ret = "EACCES"
    /\ Len(w.checks) >= 2
    /\ ~w.final /\ w.i < Len(path) /\ path[w.i + 1] \notin {"", ".", ".."}
    /\ LastCheck.fi.isDir
    /\ Stat(candidate(proc, path[w.i + 1], w.cur)).err # ""

RECURSIVE RefLinks(_, _, _)
\* the symlinks path_resolution(7) has followed, in total, when the walk of
\* path from component i in directory dir ends, n being the number followed
\* before; the count stops where the walk stops
RefLinks(dir, i, n) ==
    IF i > Len(path) \/ n > symlinkMax THEN n
    ELSE IF path[i] = "" THEN RefLinks(dir, i + 1, n)
    ELSE IF path[i] \in {".", ".."} THEN RefLinks(RefEntry(dir, path[i]).loc, i + 1, n)
    ELSE IF ~Exists(Append(dir, path[i])) THEN n
    ELSE LET c == LinkChain(Append(dir, path[i]), 0)
             e == RefEntry(dir, path[i])
             lastNamed == \A j \in (i + 1)..Len(path) : path[j] = ""
         IN IF c < 0 THEN n
            ELSE IF c > symlinkMax \/ e.err # "" THEN n + c
            ELSE IF Inode(e.loc).type # "dir" THEN n + c
            ELSE IF ~permGranted(proc, FileInfo(e), IF lastNamed THEN mode ELSE X_OK)
                 THEN n + c
            ELSE RefLinks(e.loc, i + 1, n + c)

\* the symlinks the walk of path has to follow, in total
TotalLinks == RefLinks(IF IsAbs(path) THEN RootLoc ELSE CwdLoc, 1, 0)

\* C24: the symlink counter counts every symlink followed during one walk,
\* over all components: 0 <= linkCnt <= 40 in every state of a walk, and a
\* walk that has to follow more than 40 symlinks in total, in one chain or
\* spread over several components, returns ELOOP.
C24_CumulativeCounter ==
    /\ w.pc \in {"loop", "follow", "check", "done"} =>
          (0 <= w.linkCnt /\ w.linkCnt <= symlinkMax)
    /\ (Done /\ w.ret # "ENAMETOOLONG" /\ path # <<"">> /\ TotalLinks > symlinkMax)
          => w.ret = "ELOOP"

\* the CapEff value that holds capability number n and no other
OnlyCap(n) == 2 ^ n

\* C25: the capability tests of checkPerm read the kernel encoding of CapEff,
\* capability n being bit n: when owner, group and other do not grant, a
\* principal whose CapEff holds only CAP_DAC_OVERRIDE (0x2) gets the grants of
\* CAP_DAC_OVERRIDE, one whose CapEff holds only CAP_DAC_READ_SEARCH (0x4)
\* gets the grants of CAP_DAC_READ_SEARCH, and one whose CapEff holds only
\* CAP_CHOWN (0x1) gets no grant.
C25_CapEffEncoding ==
    (call.done /\ ~DacGrants(proc, call.fi, call.aMode)) =>
        /\ proc.cap = OnlyCap(CAP_DAC_OVERRIDE)
              => (call.granted <=> OverrideRule(call.fi, call.aMode))
        /\ proc.cap = OnlyCap(CAP_DAC_READ_SEARCH)
              => (call.granted <=> ReadSearchRule(call.fi, call.aMode))
        /\ proc.cap = OnlyCap(0) => ~call.granted

\* the directory the walk of path starts in
AnchorLoc == IF IsAbs(path) THEN RootLoc ELSE CwdLoc

\* C26: a walk of a path with at least one named component needs search
\* permission on the directory each component is looked up in, the starting
\* directory (root or cwd) included: when the principal has no capability
\* and no search permission on the starting directory, procPathAccess
\* returns EACCES.
C26_SearchOnAnchor ==
    (/\ Done
     /\ path # <<"">> /\ w.ret # "ENAMETOOLONG"
     /\ \E i \in DOMAIN path : path[i] # ""
     /\ proc.cap = 0
     /\ ~permGranted(proc, FileInfo([err |-> "", loc |-> AnchorLoc]), X_OK))
    => w.ret = "EACCES"

\* location loc is the root directory of the process or lies below it
Below(loc) == IsPrefixSeq(RootLoc, loc)

\* the entry the helper's system calls reach under the name p, when there is
\* one, is inside the root of the process: the entry is the root itself for
\* proc.root, else the one lstat finds
OnEntryInsideRoot(p) ==
    \/ p = proc.root
    \/ LET r == KResolve(p, FALSE) IN r.err = "" => Below(r.loc)

\* C27: in every state of a walk of an absolute path, the entry on which
\* stat, readlink or checkPerm is performed is the root directory of the
\* process or lies below it, also after a symlink with an absolute or a
\* relative target was followed.
C27_InsideRoot ==
    (IsAbs(path) /\ w.pc \in {"loop", "follow", "check"}) => OnEntryInsideRoot(w.cur)

\* the values procPathAccess returns
Outcomes == {"nil", "ENOENT", "ENAMETOOLONG", "ENOTDIR", "ELOOP", "EACCES"}

\* a bound on the steps the walk has left: for every component to go its
\* tests, the hops the symlink counter still allows and its check
StepsLeft ==
    LET perComp == symlinkMax + 4
        comps == (Len(path) + 1 - w.i) * perComp
    IN CASE w.pc = "done" -> 0
         [] w.pc = "start" -> 1 + (Len(path) + 2) * perComp
         [] w.pc = "loop" -> 1 + comps + symlinkMax + 3
         [] w.pc = "follow" -> 1 + comps + 2 + (symlinkMax - w.linkCnt)
         [] w.pc = "check" -> 1 + comps + 1

\* every step of the walk brings it nearer to its return
Progress == StepsLeft' < StepsLeft /\ StepsLeft' >= 0

\* a walk that has not returned has a next step: it is at one of the places
\* of the function, and inside the loop its index is a component or one
\* past the last
NotStuck ==
    /\ w.pc \in {"start", "loop", "follow", "check", "done"}
    /\ w.pc = "loop" => (1 <= w.i /\ w.i <= Len(path) + 1)

\* C30: procPathAccess terminates, with success or exactly one error kind,
\* for every path and file system of the model, symlink cycles included:
\* the steps left go down with every step and never below 0, so no walk
\* goes on for ever; a walk that has not returned is never stuck; the
\* returned value is one of the six outcomes; the symlink loop runs only
\* while its counter is at most 40.
C30_Terminates ==
    /\ [][Progress]_vars
    /\ [](w.pc # "idle" => NotStuck)
    /\ [](Done <=> w.ret \in Outcomes)
    /\ [](w.pc = "follow" => (0 <= w.linkCnt /\ w.linkCnt <= symlinkMax))

\* the walk of a path through the symlink that points to itself has returned
C30_Witness ==
    /\ Done
    /\ w.ret \in Outcomes
    /\ w.i \in DOMAIN path
    /\ path[w.i] = "self"
    /\ Inode(Append(RootLoc, "self")).target = <<"", "self">>

====
